---------------------------- MODULE Spec2Model ----------------------------
(***************************************************************************)
(* Model of algorithms/casanovo/output_mapper.py (class OutputMapper).     *)
(*                                                                         *)
(* Python strings are modelled as sequences of one-character strings, so   *)
(* that str.replace, re.search, re.sub, str.split, float(), str(float),    *)
(* int() and str(int) are computed character by character.                 *)
(*                                                                         *)
(* A Python float is modelled by the integer number of quarters it holds   *)
(* (1.5 is 6).  Every score literal the model feeds in has a fraction that *)
(* is a multiple of 0.5, so the literal, the sum of two of them and half   *)
(* of that sum are whole numbers of quarters, exact in binary floating     *)
(* point, and str() prints them in positional notation.                    *)
(***************************************************************************)
EXTENDS Integers, Sequences, FiniteSets, TLC

VARIABLES
    pc,            \* position of the call under study
    sequence,      \* argument `sequence` of format_sequence_and_scores
    aa_scores,     \* argument `aa_scores` of format_sequence_and_scores
    result,        \* what format_sequence_and_scores returned or raised
    passes,        \* successive results of the direct-replacement loop
    scan_index,    \* argument of format_scan_index
    scan_result,   \* what format_scan_index returned
    columns,       \* output_data.columns
    output_data,   \* rows of the table handed to format_output
    output_result  \* what format_output returned or raised

vars == <<pc, sequence, aa_scores, result, passes, scan_index, scan_result,
          columns, output_data, output_result>>

-----------------------------------------------------------------------------
(* Bounds of the model. *)

MaxChunks == 4
MaxScores == 3
MaxPasses == 2
MaxDigits == 2
MaxRows == 2

-----------------------------------------------------------------------------
(* Character classes of the regular expressions. *)

DigitChars == <<"0", "1", "2", "3", "4", "5", "6", "7", "8", "9">>

\* \d and the 0-9 of [0-9.+-]
Digits == {DigitChars[i] : i \in 1..Len(DigitChars)}

\* [0-9.+-]
PtmChars == Digits \cup {".", "+", "-"}

\* [A-Z]
UpperChars == {"A", "B", "C", "D", "E", "F", "G", "H", "I", "J", "K", "L", "M",
               "N", "O", "P", "Q", "R", "S", "T", "U", "V", "W", "X", "Y", "Z"}

\* [a-z=_]
StripChars == {"a", "b", "c", "d", "e", "f", "g", "h", "i", "j", "k", "l", "m",
               "n", "o", "p", "q", "r", "s", "t", "u", "v", "w", "x", "y", "z",
               "=", "_"}

-----------------------------------------------------------------------------
(* Python built-ins on strings and numbers. *)

\* s[i:] of Python, 1-based: the characters of s from position i on
From(s, i) == SubSeq(s, i, Len(s))

\* s.startswith(p)
StartsWith(s, p) == Len(p) <= Len(s) /\ SubSeq(s, 1, Len(p)) = p

\* old in s
Contains(s, old) == \E i \in 1..(Len(s) - Len(old) + 1) : StartsWith(From(s, i), old)

RECURSIVE StrReplaceFirst(_, _, _)
\* s.replace(old, new, 1): only the leftmost occurrence
StrReplaceFirst(s, old, new) ==
    IF Len(s) < Len(old) THEN s
    ELSE IF StartsWith(s, old) THEN new \o From(s, Len(old) + 1)
    ELSE <<Head(s)>> \o StrReplaceFirst(Tail(s), old, new)

RECURSIVE StrReplace(_, _, _)
\* s.replace(old, new): every non-overlapping occurrence, left to right
StrReplace(s, old, new) ==
    IF Len(s) < Len(old) THEN s
    ELSE IF StartsWith(s, old)
         THEN new \o StrReplace(From(s, Len(old) + 1), old, new)
         ELSE <<Head(s)>> \o StrReplace(Tail(s), old, new)

RECURSIVE StrSplit(_, _)
\* s.split(sep) for a one-character sep
StrSplit(s, sep) ==
    IF \E i \in 1..Len(s) : s[i] = sep
    THEN LET i == CHOOSE k \in 1..Len(s) :
                      s[k] = sep /\ \A j \in 1..(k - 1) : s[j] # sep
         IN  <<SubSeq(s, 1, i - 1)>> \o StrSplit(From(s, i + 1), sep)
    ELSE <<s>>

RECURSIVE StrJoin(_, _)
\* sep.join(parts)
StrJoin(parts, sep) ==
    IF parts = <<>> THEN <<>>
    ELSE IF Len(parts) = 1 THEN parts[1]
    ELSE parts[1] \o <<sep>> \o StrJoin(Tail(parts), sep)

DigitVal(c) == (CHOOSE i \in 1..Len(DigitChars) : DigitChars[i] = c) - 1

RECURSIVE DecVal(_)
\* value of a string of decimal digits ("" is 0)
DecVal(ds) ==
    IF ds = <<>> THEN 0
    ELSE 10 * DecVal(SubSeq(ds, 1, Len(ds) - 1)) + DigitVal(ds[Len(ds)])

RECURSIVE DecStr(_)
\* decimal digits of a natural number
DecStr(n) ==
    IF n < 10 THEN <<DigitChars[n + 1]>>
    ELSE DecStr(n \div 10) \o <<DigitChars[(n % 10) + 1]>>

\* int(ds) for ds matched by \d+
PyInt(ds) == DecVal(ds)

\* str(n) of an int
PyStrInt(n) == IF n < 0 THEN <<"-">> \o DecStr(-n) ELSE DecStr(n)

RECURSIVE Pow10(_)
Pow10(k) == IF k = 0 THEN 1 ELSE 10 * Pow10(k - 1)

\* the literal without its optional sign
Unsigned(lit) == IF lit # <<>> /\ lit[1] \in {"+", "-"} THEN Tail(lit) ELSE lit

\* whether float(lit) succeeds: [sign] digits [. digits] with at least one
\* digit (float also takes blanks around the literal, exponents, inf and nan,
\* which need characters no input of the model holds)
IsFloatLiteral(lit) ==
    LET u == Unsigned(lit)
    IN  /\ \A i \in 1..Len(u) : u[i] \in Digits \cup {"."}
        /\ Cardinality({i \in 1..Len(u) : u[i] = "."}) <= 1
        /\ \E i \in 1..Len(u) : u[i] \in Digits

\* float(lit), in quarters
PyFloat(lit) ==
    LET u == Unsigned(lit)
        dot == IF \E i \in 1..Len(u) : u[i] = "."
               THEN CHOOSE i \in 1..Len(u) : u[i] = "."
               ELSE Len(u) + 1
        whole == SubSeq(u, 1, dot - 1)
        frac == From(u, dot + 1)
        q == 4 * DecVal(whole) + ((4 * DecVal(frac)) \div Pow10(Len(frac)))
    IN  IF lit # <<>> /\ lit[1] = "-" THEN -q ELSE q

\* str(x) of a float x given in quarters: 6 -> "1.5", 8 -> "2.0"
PyStrFloat(q) ==
    LET a == IF q < 0 THEN -q ELSE q
        fracs == << <<"0">>, <<"2", "5">>, <<"5">>, <<"7", "5">> >>
    IN  (IF q < 0 THEN <<"-">> ELSE <<>>)
            \o DecStr(a \div 4) \o <<".">> \o fracs[(a % 4) + 1]

-----------------------------------------------------------------------------
(* class OutputMapper *)

CarbamidoC == <<"C", "+", "5", "7", ".", "0", "2", "1">>

REPLACEMENTS == << <<CarbamidoC, <<"C">> >> >>

\* Variant of NTermMatchLen: the pattern without its ^ anchor.
NTermMatchAnywhere(s, pos) ==
    LET run == {k \in 1..(Len(s) - pos) :
                    \A i \in pos..(pos + k - 1) : s[i] \in PtmChars}
    IN  IF \E k \in run : s[pos + k] \in UpperChars
        THEN (CHOOSE k \in run : s[pos + k] \in UpperChars) + 1
        ELSE 0

\* Variant of NTermMatchLen: the pattern ^([+-][0-9.]+)([A-Z]), which takes
\* one signed mass and nothing else for the marker.
NTermMatchSingleMarker(s, pos) ==
    LET run == {k \in 2..(Len(s) - pos) :
                    /\ s[pos] \in {"+", "-"}
                    /\ \A i \in (pos + 1)..(pos + k - 1) : s[i] \in Digits \cup {"."}}
    IN  IF pos = 1 /\ \E k \in run : s[pos + k] \in UpperChars
        THEN (CHOOSE k \in run : s[pos + k] \in UpperChars) + 1
        ELSE 0

\* Length of the match of N_TERM_MOD_PATTERN = ^([0-9.+-]+)([A-Z]) starting at
\* position pos of s, 0 when it does not match there.  ^ matches only at the
\* start of the string; the two character classes are disjoint, so group 1
\* is the whole run of [0-9.+-] and it must be followed by one [A-Z].
NTermMatchLen(s, pos) ==
    LET run == {k \in 1..(Len(s) - pos) :
                    \A i \in pos..(pos + k - 1) : s[i] \in PtmChars}
    IN  IF pos = 1 /\ \E k \in run : s[pos + k] \in UpperChars
        THEN (CHOOSE k \in run : s[pos + k] \in UpperChars) + 1
        ELSE 0

\* Variant of _transform_match_n_term_mod: the groups put back in their order.
TransformKeepsOrder(ptm, aa) == ptm \o aa

\* _transform_match_n_term_mod: group 1 is ptm, group 2 is aa
_transform_match_n_term_mod(ptm, aa) == aa \o ptm

\* re.search(N_TERM_MOD_PATTERN, s)
ReSearchNTerm(s) == \E pos \in 1..Len(s) : NTermMatchLen(s, pos) > 0

RECURSIVE ReSubNTermFrom(_, _)
\* re.sub scanning from position pos: a match is replaced by the callback's
\* result and the scan resumes after it, any other character is copied
ReSubNTermFrom(s, pos) ==
    IF pos > Len(s) THEN <<>>
    ELSE LET n == NTermMatchLen(s, pos)
         IN  IF n > 0
             THEN _transform_match_n_term_mod(SubSeq(s, pos, pos + n - 2),
                                              <<s[pos + n - 1]>>)
                      \o ReSubNTermFrom(s, pos + n)
             ELSE <<s[pos]>> \o ReSubNTermFrom(s, pos + 1)

\* re.sub(N_TERM_MOD_PATTERN, self._transform_match_n_term_mod, s)
ReSubNTerm(s) == ReSubNTermFrom(s, 1)

\* _parse_scores: split on ',' and map float; float raises ValueError
_parse_scores(scores) ==
    LET parts == StrSplit(scores, ",")
    IN  IF \A i \in 1..Len(parts) : IsFloatLiteral(parts[i])
        THEN [exc |-> "none", value |-> [i \in 1..Len(parts) |-> PyFloat(parts[i])]]
        ELSE [exc |-> "ValueError", value |-> <<>>]

\* _format_scores
_format_scores(scores) ==
    StrJoin([i \in 1..Len(scores) |-> PyStrFloat(scores[i])], ",")

\* Variant of MergeNTermScores: the marker's score is not dropped.
MergeKeepsMarkerScore(scores) == [scores EXCEPT ![2] = (scores[1] + scores[2]) \div 2]

\* Variant of MergeNTermScores: the marker's score is dropped, no mean taken.
MergeDropsMean(scores) == Tail(scores)

\* aa_scores[1] = (aa_scores[0] + aa_scores[1]) / 2; aa_scores = aa_scores[1:]
\* (scores in quarters; with literals in halves the sum is even)
MergeNTermScores(scores) ==
    Tail([scores EXCEPT ![2] = (scores[1] + scores[2]) \div 2])

RECURSIVE ApplyFirstOnly(_, _)
\* Variant of ApplyReplacements: replace(old, new, 1).
ApplyFirstOnly(s, repls) ==
    IF repls = <<>> THEN s
    ELSE ApplyFirstOnly(StrReplaceFirst(s, repls[1][1], repls[1][2]), Tail(repls))

RECURSIVE ApplyReplacements(_, _)
\* for repl_args in self.REPLACEMENTS: sequence = sequence.replace(*repl_args)
ApplyReplacements(s, repls) ==
    IF repls = <<>> THEN s
    ELSE ApplyReplacements(StrReplace(s, repls[1][1], repls[1][2]), Tail(repls))

Raised(e) == [exc |-> e, sequence |-> <<>>, aa_scores |-> <<>>]

\* format_sequence_and_scores
format_sequence_and_scores(seq, scores) ==
    LET replaced == ApplyReplacements(seq, REPLACEMENTS)
    IN  IF ~ReSearchNTerm(replaced)
        THEN [exc |-> "none", sequence |-> replaced, aa_scores |-> scores]
        ELSE LET parsed == _parse_scores(scores)
             IN  IF parsed.exc # "none" THEN Raised(parsed.exc)
                 ELSE IF Len(parsed.value) < 2 THEN Raised("IndexError")
                 ELSE [exc |-> "none",
                       sequence |-> ReSubNTerm(replaced),
                       aa_scores |-> _format_scores(MergeNTermScores(parsed.value))]

\* re.sub("[a-z=_]", "", s): every matching character is replaced by ""
RECURSIVE ReSubStrip(_)
ReSubStrip(s) ==
    IF s = <<>> THEN <<>>
    ELSE (IF Head(s) \in StripChars THEN <<>> ELSE <<Head(s)>>) \o ReSubStrip(Tail(s))

\* Length of the match of FILE_IDX_PATTERN = \[(\d+)\] starting at position
\* pos of s, 0 when it does not match there: "[", the whole run of digits
\* (at least one), "]".
FileIdxMatchLen(s, pos) ==
    LET run == {k \in 1..(Len(s) - pos - 1) :
                    \A i \in (pos + 1)..(pos + k) : s[i] \in Digits}
    IN  IF s[pos] = "[" /\ \E k \in run : s[pos + k + 1] = "]"
        THEN (CHOOSE k \in run : s[pos + k + 1] = "]") + 2
        ELSE 0

\* Variant of _transform_match_file_idx: the file number is not decremented.
TransformKeepsFileNumber(m) == <<"F">> \o PyStrInt(PyInt(SubSeq(m, 2, Len(m) - 1)))

\* _transform_match_file_idx: m is match.group(0)
_transform_match_file_idx(m) ==
    <<"F">> \o PyStrInt(PyInt(SubSeq(m, 2, Len(m) - 1)) - 1)

RECURSIVE ReSubFileIdxFrom(_, _)
\* re.sub(FILE_IDX_PATTERN, self._transform_match_file_idx, s) from pos on
ReSubFileIdxFrom(s, pos) ==
    IF pos > Len(s) THEN <<>>
    ELSE LET n == FileIdxMatchLen(s, pos)
         IN  IF n > 0
             THEN _transform_match_file_idx(SubSeq(s, pos, pos + n - 1))
                      \o ReSubFileIdxFrom(s, pos + n)
             ELSE <<s[pos]>> \o ReSubFileIdxFrom(s, pos + 1)

\* format_scan_index; no statement of it raises
format_scan_index(idx) ==
    [exc |-> "none", scan_index |-> ReSubFileIdxFrom(ReSubStrip(idx), 1)]

\* format_output.  DataFrame.apply calls the function row by row and lets
\* the first exception through.  In the branch without an aa_scores column
\* the argument self.format_sequence is evaluated before apply is called;
\* class OutputMapper defines no attribute of that name, so the lookup
\* raises AttributeError.
format_output(data, cols) ==
    LET rows == 1..Len(data)
        formatted == [i \in rows |->
                         format_sequence_and_scores(data[i].sequence, data[i].aa_scores)]
        failing == {i \in rows : formatted[i].exc # "none"}
        first == CHOOSE i \in failing : \A j \in failing : i <= j
    IN  IF "aa_scores" \in cols
        THEN IF failing # {}
             THEN [exc |-> formatted[first].exc, data |-> <<>>]
             ELSE [exc |-> "none",
                   data |-> [i \in rows |->
                       [data[i] EXCEPT
                           !.sequence = formatted[i].sequence,
                           !.aa_scores = formatted[i].aa_scores,
                           !.scan_indices = format_scan_index(@).scan_index]]]
        ELSE [exc |-> "AttributeError", data |-> <<>>]

-----------------------------------------------------------------------------
(* Inputs. *)

RECURSIVE Concats(_, _)
\* the strings made of at most n chunks
Concats(chunks, n) ==
    IF n = 0 THEN {<<>>}
    ELSE LET shorter == Concats(chunks, n - 1)
         IN  shorter \cup {p \o c : p \in shorter, c \in chunks}

\* pieces of a predicted peptide: residues and mass-delta markers
SequenceChunks ==
    { <<"C">>, <<"G">>, <<"+", "5", "7", ".", "0", "2", "1">>, <<"+", "4", "2">> }

\* a predicted peptide is not the empty string
SequenceInputs == Concats(SequenceChunks, MaxChunks) \ {<<>>}

\* entries of the score column: floats, and one that float() rejects
ScoreLiterals == { <<"1", ".", "0">>, <<"0", ".", "5">>, <<"2">>, <<"x">> }

ScoreInputs ==
    {StrJoin(ls, ",") : ls \in UNION {[1..n -> ScoreLiterals] : n \in 1..MaxScores}}

\* decimal numerals of a scan index
NumeralDigits == {"0", "1", "9"}

Numerals == UNION {[1..n -> NumeralDigits] : n \in 1..MaxDigits}

MsRun == <<"m", "s", "_", "r", "u", "n">>

IndexEq == <<":", "i", "n", "d", "e", "x", "=">>

\* ms_run[n]:index=j
SourceForm(n, j) == MsRun \o <<"[">> \o n \o <<"]">> \o IndexEq \o j

\* spectra_ref entries: the source form, and entries whose bracket holds no
\* number or is missing
ScanInputs ==
    {SourceForm(n, j) : n \in Numerals, j \in Numerals}
        \cup {MsRun \o b \o IndexEq \o j : b \in {<<>>, <<"[", "]">>}, j \in Numerals}
        \cup {<<"[">> \o n \o <<"]">> \o <<":">> \o j : n \in Numerals, j \in Numerals}

\* rows of the spectrum match table
RowInputs ==
    [sequence : { <<"+", "4", "2", "G", "C">>,
                  <<"G", "C", "+", "5", "7", ".", "0", "2", "1">>,
                  <<"+", "4", "2", "+", "4", "2", "G">> },
     aa_scores : { <<"1", ".", "0", ",", "2", ",", "2">>, <<"x", ",", "2">> },
     scan_indices : { SourceForm(<<"1">>, <<"0">>), SourceForm(<<"1", "0">>, <<"9">>) }]

\* a row of a table that has the columns cols
Project(row, cols) == [c \in cols |-> row[c]]

TableInputs(cols) ==
    UNION {[1..n -> {Project(r, cols) : r \in RowInputs}] : n \in 1..MaxRows}

ColumnInputs == { {"sequence", "scan_indices"}, {"sequence", "aa_scores", "scan_indices"} }

NoResult == [exc |-> "pending", sequence |-> <<>>, aa_scores |-> <<>>]

-----------------------------------------------------------------------------
(* One call of format_sequence_and_scores. *)

Init ==
    /\ pc = "start"
    /\ sequence \in SequenceInputs
    /\ aa_scores \in ScoreInputs
    /\ result = NoResult
    /\ passes = <<>>
    /\ scan_index = <<>>
    /\ scan_result = <<>>
    /\ columns = {}
    /\ output_data = <<>>
    /\ output_result = <<>>

FormatSequenceAndScores ==
    /\ pc = "start"
    /\ result' = format_sequence_and_scores(sequence, aa_scores)
    /\ pc' = "done"
    /\ UNCHANGED <<sequence, aa_scores, passes, scan_index, scan_result,
                   columns, output_data, output_result>>

Next == FormatSequenceAndScores

Spec == Init /\ [][Next]_vars

-----------------------------------------------------------------------------
(* The direct-replacement loop of format_sequence_and_scores, run again on *)
(* its own result.                                                         *)

InitReplace ==
    /\ pc = "start"
    /\ sequence \in SequenceInputs
    /\ aa_scores = <<>>
    /\ result = NoResult
    /\ passes = <<>>
    /\ scan_index = <<>>
    /\ scan_result = <<>>
    /\ columns = {}
    /\ output_data = <<>>
    /\ output_result = <<>>

FixedSubstitutions ==
    /\ Len(passes) < MaxPasses
    /\ passes' = Append(passes,
                        ApplyReplacements(IF passes = <<>> THEN sequence
                                          ELSE passes[Len(passes)],
                                          REPLACEMENTS))
    /\ UNCHANGED <<pc, sequence, aa_scores, result, scan_index, scan_result,
                   columns, output_data, output_result>>

NextReplace == FixedSubstitutions

SpecReplace == InitReplace /\ [][NextReplace]_vars

-----------------------------------------------------------------------------
(* One call of format_scan_index. *)

InitScanIndex ==
    /\ pc = "start"
    /\ sequence = <<>>
    /\ aa_scores = <<>>
    /\ result = NoResult
    /\ passes = <<>>
    /\ scan_index \in ScanInputs
    /\ scan_result = [exc |-> "pending", scan_index |-> <<>>]
    /\ columns = {}
    /\ output_data = <<>>
    /\ output_result = <<>>

FormatScanIndex ==
    /\ pc = "start"
    /\ scan_result' = format_scan_index(scan_index)
    /\ pc' = "done"
    /\ UNCHANGED <<sequence, aa_scores, result, passes, scan_index,
                   columns, output_data, output_result>>

NextScanIndex == FormatScanIndex

SpecScanIndex == InitScanIndex /\ [][NextScanIndex]_vars

-----------------------------------------------------------------------------
(* One call of format_output. *)

InitOutput ==
    /\ pc = "start"
    /\ sequence = <<>>
    /\ aa_scores = <<>>
    /\ result = NoResult
    /\ passes = <<>>
    /\ scan_index = <<>>
    /\ scan_result = <<>>
    /\ columns \in ColumnInputs
    /\ output_data \in TableInputs(columns)
    /\ output_result = [exc |-> "pending", data |-> <<>>]

FormatOutput ==
    /\ pc = "start"
    /\ output_result' = format_output(output_data, columns)
    /\ pc' = "done"
    /\ UNCHANGED <<sequence, aa_scores, result, passes, scan_index, scan_result,
                   columns, output_data>>

NextOutput == FormatOutput

SpecOutput == InitOutput /\ [][NextOutput]_vars

-----------------------------------------------------------------------------
(* Vocabulary of the properties of format_sequence_and_scores. *)

\* number of residues of s
Residues(s) == Cardinality({i \in 1..Len(s) : s[i] \in UpperChars})

\* s begins with a character of a modification marker
HasLeadingMarker(s) == s # <<>> /\ s[1] \in PtmChars

\* length of the run of marker characters s begins with
LeadingRun(s) ==
    IF HasLeadingMarker(s)
    THEN CHOOSE k \in 1..Len(s) :
             /\ \A i \in 1..k : s[i] \in PtmChars
             /\ (k = Len(s) \/ s[k + 1] \notin PtmChars)
    ELSE 0

\* s begins with a marker that is followed by a residue
MarkerThenResidue(s) ==
    HasLeadingMarker(s) /\ LeadingRun(s) < Len(s) /\ s[LeadingRun(s) + 1] \in UpperChars

\* tokens of the source notation: a leading marker is a token of its own,
\* every residue with its trailing marker is one token
SourceTokens(s) == Residues(s) + (IF HasLeadingMarker(s) THEN 1 ELSE 0)

\* tokens of the canonical notation: a residue with its trailing marker
CanonicalTokens(s) == Residues(s)

\* number of entries of a comma-separated score string
ScoreCount(str) ==
    IF str = <<>> THEN 0 ELSE 1 + Cardinality({i \in 1..Len(str) : str[i] = ","})

\* s with the marker it begins with moved behind the first residue
Relocated(s) ==
    IF MarkerThenResidue(s)
    THEN LET k == LeadingRun(s)
         IN  <<s[k + 1]>> \o SubSeq(s, 1, k) \o From(s, k + 2)
    ELSE s

\* the sequence after the fixed substitutions
Substituted == ApplyReplacements(sequence, REPLACEMENTS)

\* the score column entry parses as comma-separated floats
ScoresParse == _parse_scores(aa_scores).exc = "none"

InScores == _parse_scores(aa_scores).value

OutScores == _parse_scores(result.aa_scores).value

Returned == pc = "done" /\ result.exc = "none"

\* the returned scores are the input scores with the first two merged
\* into their mean
ScoresMerged ==
    /\ _parse_scores(result.aa_scores).exc = "none"
    /\ Len(OutScores) = Len(InScores) - 1
    /\ 2 * OutScores[1] = InScores[1] + InScores[2]
    /\ \A i \in 2..Len(OutScores) : OutScores[i] = InScores[i + 1]

\* N-terminal modification syntax outside the single-marker case: the
\* leading run holds a second marker, or the first residue carries a marker
\* of its own
OutsideSingleMarker(s) ==
    /\ MarkerThenResidue(s)
    /\ \/ \E i \in 2..LeadingRun(s) : s[i] \in {"+", "-"}
       \/ /\ LeadingRun(s) + 2 <= Len(s)
          /\ s[LeadingRun(s) + 2] \in PtmChars

-----------------------------------------------------------------------------
(* C1 *)

\* C1 as stated: whenever the number of scores equals the number of source
\* tokens, the returned score list has as many entries as the returned
\* sequence has canonical tokens.
C1_CountsAgree ==
    (Returned /\ ScoreCount(aa_scores) = SourceTokens(sequence))
        => ScoreCount(result.aa_scores) = CanonicalTokens(result.sequence)

\* C1 amended: the same, for sequences whose leading marker, if there is
\* one, is followed by a residue.
C1_CountsAgreeWithResidue ==
    (/\ Returned
     /\ ScoreCount(aa_scores) = SourceTokens(sequence)
     /\ (HasLeadingMarker(sequence) => MarkerThenResidue(sequence)))
        => ScoreCount(result.aa_scores) = CanonicalTokens(result.sequence)

C1_Witness ==
    /\ Returned
    /\ MarkerThenResidue(sequence)
    /\ ScoreCount(aa_scores) = SourceTokens(sequence)
    /\ ScoreCount(result.aa_scores) = 2
    /\ CanonicalTokens(result.sequence) = 2

-----------------------------------------------------------------------------
(* C2 *)

\* C2: when the substituted sequence begins with a marker followed by a
\* residue and the scores are n >= 2 floats, the call returns n - 1 scores:
\* the mean of the first two, then the others in their order.
C2_FirstTwoAveraged ==
    (/\ pc = "done"
     /\ MarkerThenResidue(Substituted)
     /\ ScoresParse
     /\ Len(InScores) >= 2)
        => (result.exc = "none" /\ ScoresMerged)

C2_Witness ==
    /\ Returned
    /\ MarkerThenResidue(Substituted)
    /\ ScoresParse
    /\ Len(InScores) = 3
    /\ InScores[1] # InScores[2]
    /\ ScoresMerged

-----------------------------------------------------------------------------
(* C3 *)

\* C3 as stated: the returned sequence is the input sequence with the
\* marker at its start moved behind the first residue, every other
\* character left in place.
C3_OnlyLeadingMarkerMoves ==
    Returned => result.sequence = Relocated(sequence)

\* C3 amended: the returned sequence is the sequence after the fixed
\* substitutions with the marker at its start moved behind the first
\* residue, every other character of it left in place.
C3_OnlyLeadingMarkerMovesAfterSubstitution ==
    Returned => result.sequence = Relocated(Substituted)

C3_Witness ==
    /\ Returned
    /\ MarkerThenResidue(Substituted)
    /\ \E i \in (LeadingRun(Substituted) + 2)..Len(Substituted) :
           Substituted[i] \in PtmChars
    /\ result.sequence # Substituted
    /\ result.sequence = Relocated(Substituted)

-----------------------------------------------------------------------------
(* C4 *)

\* C4: a sequence that does not begin with a marker gets its score string
\* back unchanged, and the sequence itself too when it holds no C+57.021.
C4_NoMarkerPassThrough ==
    (pc = "done" /\ ~HasLeadingMarker(sequence))
        => /\ result.exc = "none"
           /\ result.aa_scores = aa_scores
           /\ (~Contains(sequence, CarbamidoC) => result.sequence = sequence)

C4_Witness ==
    /\ Returned
    /\ ~HasLeadingMarker(sequence)
    /\ ~Contains(sequence, CarbamidoC)
    /\ \E i \in 1..Len(sequence) : sequence[i] \in PtmChars
    /\ ScoresParse
    /\ Len(InScores) = 2
    /\ result.aa_scores # _format_scores(InScores)
    /\ result.aa_scores = aa_scores
    /\ result.sequence = sequence

-----------------------------------------------------------------------------
(* C7 *)

\* C7: a score entry that does not parse as comma-separated floats makes
\* the call raise, with or without a leading marker.
C7_MalformedScoresRaise ==
    (pc = "done" /\ ~ScoresParse) => result.exc # "none"

-----------------------------------------------------------------------------
(* C8 *)

-----------------------------------------------------------------------------
(* C5 *)

\* C5: ms_run[n]:index=j with n >= 1 becomes F<n-1>:<j>.
C5_SourceFormRemapped ==
    pc = "done" =>
        \A n \in Numerals, j \in Numerals :
            (scan_index = SourceForm(n, j) /\ DecVal(n) >= 1)
                => /\ scan_result.exc = "none"
                   /\ scan_result.scan_index
                          = <<"F">> \o DecStr(DecVal(n) - 1) \o <<":">> \o j

C5_Witness ==
    /\ pc = "done"
    /\ \E j \in Numerals : scan_index = SourceForm(<<"1", "0">>, j)
    /\ SubSeq(scan_result.scan_index, 1, 3) = <<"F", "9", ":">>

-----------------------------------------------------------------------------
(* C6 *)

\* the bracketed file number of idx, as text; <<>> when idx holds none
BracketedNumber(idx) ==
    LET found == {p \in (1..Len(idx)) \X (1..Len(idx)) :
                      /\ p[1] + 1 < p[2]
                      /\ idx[p[1]] = "["
                      /\ idx[p[2]] = "]"
                      /\ \A i \in (p[1] + 1)..(p[2] - 1) : idx[i] \in Digits}
    IN  IF found = {} THEN <<>>
        ELSE LET p == CHOOSE q \in found : TRUE
             IN  SubSeq(idx, p[1] + 1, p[2] - 1)

\* C6: a bracketed file number of zero, or no bracketed number at all, makes
\* format_scan_index raise; it never returns a negative file index.
C6_ZeroOrAbsentRaises ==
    pc = "done" =>
        /\ (BracketedNumber(scan_index) = <<>> \/ DecVal(BracketedNumber(scan_index)) = 0)
               => scan_result.exc # "none"
        /\ ~Contains(scan_result.scan_index, <<"F", "-">>)

-----------------------------------------------------------------------------
(* C9 *)

\* the row the claim expects for a row of a table with an aa_scores column
WithScoresRow(row) ==
    [row EXCEPT
        !.sequence = format_sequence_and_scores(row.sequence, row.aa_scores).sequence,
        !.aa_scores = format_sequence_and_scores(row.sequence, row.aa_scores).aa_scores,
        !.scan_indices = format_scan_index(@).scan_index]

\* the row the claim expects for a row of a table without one: markers
\* relocated, no score merge
SequenceOnlyRow(row) ==
    [row EXCEPT
        !.sequence = Relocated(ApplyReplacements(@, REPLACEMENTS)),
        !.scan_indices = format_scan_index(@).scan_index]

\* C9: with an aa_scores column the returned table holds every row
\* transformed by format_sequence_and_scores; without one format_output
\* completes and the returned table holds every row with the sequence-only
\* transform; in both cases scan_indices is remapped and the rows are the
\* same rows in the same order.
C9_EveryRowFormatted ==
    pc = "done" =>
        IF "aa_scores" \in columns
        THEN output_result.exc = "none"
                 => /\ Len(output_result.data) = Len(output_data)
                    /\ \A i \in 1..Len(output_data) :
                           output_result.data[i] = WithScoresRow(output_data[i])
        ELSE /\ output_result.exc = "none"
             /\ Len(output_result.data) = Len(output_data)
             /\ \A i \in 1..Len(output_data) :
                    output_result.data[i] = SequenceOnlyRow(output_data[i])

-----------------------------------------------------------------------------
(* C10 *)

\* C10 as stated: a second pass of the fixed substitutions changes nothing,
\* for every sequence.
C10_SubstitutionIdempotent ==
    \A i \in 2..Len(passes) : passes[i] = passes[i - 1]

\* C10 amended: a second pass of the fixed substitutions changes nothing,
\* for every sequence in which no C+57.021 is directly followed by +57.021.
C10_SubstitutionIdempotentWithoutDoubledMarker ==
    ~Contains(sequence, CarbamidoC \o Tail(CarbamidoC))
        => /\ \A i \in 2..Len(passes) : passes[i] = passes[i - 1]
           /\ \A i \in 1..Len(passes) : ~Contains(passes[i], CarbamidoC)

C10_Witness ==
    /\ Len(passes) >= 2
    /\ Contains(sequence, CarbamidoC)
    /\ ~Contains(sequence, CarbamidoC \o Tail(CarbamidoC))
    /\ passes[1] # sequence
    /\ passes[2] = passes[1]

=============================================================================
